---------------------------- MODULE Spec2Model ----------------------------
(***************************************************************************)
(* The OCR-driven screen state machine of invisible-hand                   *)
(* (src/invisible-hand/state_machine.py): the screen graph, the            *)
(* breadth-first planner _find_path, the bounded-retry initial detection   *)
(* and the detect_and_transition walk/verify loop, with the window,        *)
(* capture, OCR and input providers as the environment.                    *)
(***************************************************************************)
EXTENDS Naturals, Sequences, FiniteSets, TLC

VARIABLES
    states,         \* self.states: screen name -> State.transitions (ordered dict)
    states_info,    \* self.states_info: the rules' screen names, in insertion order
    max_retries,    \* self.max_retries
    current_state,  \* self.current_state (the belief), NoState before construction
    pc,             \* where the control thread is
    attempt,        \* loop variable of detect_initial_state_with_retries
    target,         \* target_state_name of the call in flight / last call
    path,           \* the planner's answer in that call
    hop,            \* index into path of the state the for loop is at
    result,         \* how the last finished operation ended
    adopted,        \* that call replaced the belief it was entered with by its detection
    detected,       \* the local detected_state_name, as last assigned
    fired,          \* edge actions fired in that call, in order
    io,             \* provider calls made by the operation in flight / last finished
    queue,          \* _find_path: the deque
    visited,        \* _find_path: the visited set
    found,          \* _find_path: the value returned (NoPath for None)
    transition_table, \* setup_transitions: its transitions argument, <<>> outside it
    cursor,         \* setup_transitions: the entry its loops are at
    image,          \* find_text_in_rois: the frame, as the tokens read per region
    rules,          \* find_text_in_rois: its states_info argument, in full
    consulted,      \* find_text_in_rois: the rules whose region was read, in order
    returned,       \* find_text_in_rois: the value returned
    main,           \* InvisibleHand: where __init__ / run is, "off" without one
    job,            \* InvisibleHand: where each scheduled job is, "rest" between runs
    in_flight,      \* detect_and_transition calls entered and not yet ended
    other           \* the locals of a call of a second thread, while that
                    \* thread is not the one running

\* the variables of a run of find_text_in_rois on its own
ocrVars == <<image, rules, consulted, returned>>

\* the variables of the callers: the orchestration in hand.py, and a second
\* calling thread
handVars == <<main, job, in_flight, other>>

vars == <<states, states_info, max_retries, current_state, pc, attempt, target,
          path, hop, result, adopted, detected, fired, io, queue, visited,
          found, transition_table, cursor, ocrVars, handVars>>

-----------------------------------------------------------------------------
(* Bounds of the model *)

\* most add_transition calls in a generated transition table
MaxEdges == 3
\* most add_transition calls made on one State on its own
MaxCalls == 3
\* largest max_retries a generated configuration is constructed with
MaxRetries == 3

-----------------------------------------------------------------------------
(* Python values *)

\* None, as a screen name / state reference
NoState == "<None>"
\* None, as the planner's answer (a real path is never empty)
NoPath == <<>>

-----------------------------------------------------------------------------
(* State: the transitions dict, insertion-ordered, keyed by input *)

\* State.__init__: self.transitions = {}
NewState == <<>>

\* position of key `input` in the dict, 0 when absent
KeyIndex(transitions, input) ==
    IF \E i \in 1..Len(transitions) : transitions[i].input = input
    THEN CHOOSE i \in 1..Len(transitions) : transitions[i].input = input
    ELSE 0

\* add_transition with setdefault for the assignment: the first registration
\* of a key stays
add_transition_setdefault(transitions, input, target_state) ==
    LET i == KeyIndex(transitions, input)
        entry == [input |-> input, target |-> target_state]
    IN IF i = 0 THEN Append(transitions, entry) ELSE transitions

\* State.add_transition: self.transitions[input] = (target_state, action);
\* assigning an existing key keeps its position and replaces its value
add_transition(transitions, input, target_state) ==
    LET i == KeyIndex(transitions, input)
        entry == [input |-> input, target |-> target_state]
    IN IF i = 0 THEN Append(transitions, entry)
                ELSE [transitions EXCEPT ![i] = entry]

\* State.get_transition: self.transitions.get(input, None)
get_transition(transitions, input) ==
    LET i == KeyIndex(transitions, input)
    IN IF i = 0 THEN NoState ELSE transitions[i].target

-----------------------------------------------------------------------------
(* The shipped configuration *)

\* create_states: the catalog
create_states ==
    {"Main Menu", "Play", "Scoreboard", "In Game", "Menu", "Multiplayer",
     "Advanced Search", "Created", "Game Info", "Deploy", "Round Starting"}

\* create_transitions without Menu's enter_scoreboard
create_transitions_no_scoreboard ==
    << <<"Main Menu", "enter_play", "Play">>,
       <<"Play", "enter_multiplayer", "Multiplayer">>,
       <<"Scoreboard", "exit_to_main_menu", "Main Menu">>,
       <<"Scoreboard", "exit_to_menu", "Menu">>,
       <<"In Game", "enter_main_menu", "Main Menu">>,
       <<"In Game", "enter_menu", "Menu">>,
       <<"Menu", "enter_game", "In Game">>,
       <<"Multiplayer", "advanced_search", "Advanced Search">>,
       <<"Advanced Search", "enter_created", "Created">>,
       <<"Created", "game_info", "Game Info">>,
       <<"Game Info", "enter_game", "In Game">>,
       <<"Deploy", "enter_game", "In Game">>,
       <<"Round Starting", "enter_deploy", "Deploy">> >>

\* create_transitions, flattened in the iteration order of setup_transitions
create_transitions ==
    << <<"Main Menu", "enter_play", "Play">>,
       <<"Play", "enter_multiplayer", "Multiplayer">>,
       <<"Scoreboard", "exit_to_main_menu", "Main Menu">>,
       <<"Scoreboard", "exit_to_menu", "Menu">>,
       <<"In Game", "enter_main_menu", "Main Menu">>,
       <<"In Game", "enter_menu", "Menu">>,
       <<"Menu", "enter_scoreboard", "Scoreboard">>,
       <<"Menu", "enter_game", "In Game">>,
       <<"Multiplayer", "advanced_search", "Advanced Search">>,
       <<"Advanced Search", "enter_created", "Created">>,
       <<"Created", "game_info", "Game Info">>,
       <<"Game Info", "enter_game", "In Game">>,
       <<"Deploy", "enter_game", "In Game">>,
       <<"Round Starting", "enter_deploy", "Deploy">> >>

\* create_states_info: the rules' keys in insertion order
create_states_info ==
    <<"Main Menu", "Play", "Menu", "Scoreboard", "Multiplayer",
      "Advanced Search", "Created", "In Game", "Game Info", "Deploy",
      "Round Starting">>

\* setup_transitions: one add_transition per table entry, in order;
\* "KeyError" when a source or target name is not in the catalog
RECURSIVE setup_from(_, _, _)
setup_from(sts, table, k) ==
    IF k > Len(table) THEN sts
    ELSE LET e == table[k]
         IN IF e[1] \notin DOMAIN sts \/ e[3] \notin DOMAIN sts
            THEN "KeyError"
            ELSE setup_from(
                   [sts EXCEPT ![e[1]] = add_transition(sts[e[1]], e[2], e[3])],
                   table, k + 1)

setup_transitions(catalog, table) ==
    setup_from([n \in catalog |-> NewState], table, 1)

-----------------------------------------------------------------------------
(* Generated configurations: every table of at most MaxEdges entries over   *)
(* the three screens of the scoreboard scenario.                            *)

SmallNames == {"Menu", "Scoreboard", "In Game"}
SmallInfo == <<"Menu", "Scoreboard", "In Game">>

\* a table entry's input: the number of entries of its source before it
RECURSIVE Labelled(_, _)
Labelled(raw, k) ==
    IF k > Len(raw) THEN <<>>
    ELSE LET n == Cardinality({j \in 1..k : raw[j][1] = raw[k][1]})
         IN <<(<<raw[k][1], "t" \o ToString(n), raw[k][2]>>)>>
              \o Labelled(raw, k + 1)

SmallTables ==
    UNION {{Labelled(raw, 1) : raw \in [1..n -> SmallNames \X SmallNames]}
           : n \in 0..MaxEdges}

-----------------------------------------------------------------------------
(* Path Planner: OCRBasedStateMachine._find_path *)

\* Enqueued with the path handed on as it came, the expanded screen left out
EnqueuedStalePath(sts, s, p, vis) ==
    LET open == SelectSeq(sts[s], LAMBDA tr : tr.target \notin vis)
    IN [i \in 1..Len(open) |-> [state |-> open[i].target, path |-> p]]

\* Enqueued with the transitions enumerated last-inserted first
EnqueuedReversed(sts, s, p, vis) ==
    LET open == SelectSeq(sts[s], LAMBDA tr : tr.target \notin vis)
    IN [i \in 1..Len(open) |->
          [state |-> open[Len(open) + 1 - i].target, path |-> Append(p, s)]]

\* the entries one iteration of the while loop appends to the queue
Enqueued(sts, s, p, vis) ==
    LET open == SelectSeq(sts[s], LAMBDA tr : tr.target \notin vis)
    IN [i \in 1..Len(open) |-> [state |-> open[i].target, path |-> Append(p, s)]]

\* BfsStep with pop() for popleft(): the newest entry is taken first
BfsStepPop(sts, q, vis, tgt) ==
    LET head == q[Len(q)]
        rest == SubSeq(q, 1, Len(q) - 1)
    IN IF head.state = tgt
       THEN [queue |-> rest, visited |-> vis, done |-> TRUE,
             found |-> Append(head.path, head.state)]
       ELSE LET vis2 == vis \cup {head.state}
            IN [queue |-> rest \o Enqueued(sts, head.state, head.path, vis2),
                visited |-> vis2, done |-> FALSE, found |-> NoPath]

\* BfsStep with queue[0] for popleft(): the entry read stays in the queue
BfsStepPeek(sts, q, vis, tgt) ==
    LET head == Head(q)
    IN IF head.state = tgt
       THEN [queue |-> q, visited |-> vis, done |-> TRUE,
             found |-> Append(head.path, head.state)]
       ELSE LET vis2 == vis \cup {head.state}
            IN [queue |-> q \o Enqueued(sts, head.state, head.path, vis2),
                visited |-> vis2, done |-> FALSE, found |-> NoPath]

\* one iteration of the while loop: popleft, the target test, visited.add,
\* the for loop over the transitions
BfsStep(sts, q, vis, tgt) ==
    LET head == Head(q)
    IN IF head.state = tgt
       THEN [queue |-> Tail(q), visited |-> vis, done |-> TRUE,
             found |-> Append(head.path, head.state)]
       ELSE LET vis2 == vis \cup {head.state}
            IN [queue |-> Tail(q) \o Enqueued(sts, head.state, head.path, vis2),
                visited |-> vis2, done |-> FALSE, found |-> NoPath]

RECURSIVE BfsRun(_, _, _, _)
BfsRun(sts, q, vis, tgt) ==
    IF q = <<>> THEN NoPath
    ELSE LET r == BfsStep(sts, q, vis, tgt)
         IN IF r.done THEN r.found ELSE BfsRun(sts, r.queue, r.visited, tgt)

\* _find_path(target_state_name), from the belief `src`
find_path(sts, src, tgt) ==
    BfsRun(sts, <<[state |-> src, path |-> <<>>]>>, {}, tgt)


-----------------------------------------------------------------------------
(* The environment: what one window lookup + capture + OCR pass can give *)

\* the keys of a rules mapping
Keys(info) == {info[i] : i \in 1..Len(info)}

\* a frame, given by the rules whose region shows their expected text: none,
\* one or two of them at a time
Frames(info) == {{}} \cup {{a, b} : a, b \in Keys(info)}

\* GameWindowHandler() finds no window ("nowindow"); capture_window returns
\* None ("nocapture"); or a frame
Observations(info) ==
    {[kind |-> "nowindow", frame |-> {}], [kind |-> "nocapture", frame |-> {}]}
    \cup {[kind |-> "frame", frame |-> f] : f \in Frames(info)}

\* OCRProcessor.find_text_in_rois: the first rule, in insertion order, whose
\* text is found; None when no rule matches
find_text_in_rois(frame, info) ==
    IF \E i \in 1..Len(info) : info[i] \in frame
    THEN info[CHOOSE i \in 1..Len(info) :
                /\ info[i] \in frame
                /\ \A j \in 1..(i - 1) : info[j] \notin frame]
    ELSE NoState

\* GameWindowHandler(); capture_window(); find_text_in_rois(image, states_info):
\* the exception raised ("" when none), the name detected, the calls made and
\* the frames capture_window returned
Detect(obs, info) ==
    IF obs.kind = "nowindow"
    THEN [raised |-> "GameWindowNotFoundException", name |-> NoState,
          lookups |-> 1, captures |-> 0, frames |-> 0, detections |-> 0]
    ELSE IF obs.kind = "nocapture" /\ Len(info) > 0
    THEN [raised |-> "AttributeError", name |-> NoState,
          lookups |-> 1, captures |-> 1, frames |-> 0, detections |-> 1]
    ELSE [raised |-> "", name |-> find_text_in_rois(obs.frame, info),
          lookups |-> 1, captures |-> 1,
          frames |-> IF obs.kind = "frame" THEN 1 ELSE 0, detections |-> 1]

\* what a detection can give, over every observation
Detections(info) == {Detect(obs, info) : obs \in Observations(info)}

\* GameWindowHandler() calls, capture_window calls, frames they returned,
\* find_text_in_rois calls, pull_foreground calls, retry_action calls
NoIO == [lookups |-> 0, captures |-> 0, frames |-> 0, detections |-> 0,
         focus |-> 0, retries |-> 0]

\* the provider calls of `d` added to a tally
Tally(t, d) ==
    [t EXCEPT !.lookups = @ + d.lookups, !.captures = @ + d.captures,
              !.frames = @ + d.frames, !.detections = @ + d.detections]

-----------------------------------------------------------------------------
(* Construction: OCRBasedStateMachine.__init__ *)

\* the default of the max_retries parameter
DefaultMaxRetries == 2

\* create_state_handler: the shipped screen graph
ShippedStates == setup_transitions(create_states, create_transitions)

\* the configurations a controller is built from: create_state_handler's, and
\* the generated ones with each max_retries of `retrySet`
Configs(retrySet) ==
    {[states |-> ShippedStates,
      info |-> create_states_info, max_retries |-> DefaultMaxRetries]}
    \cup {[states |-> setup_transitions(SmallNames, t), info |-> SmallInfo,
           max_retries |-> r] : t \in SmallTables, r \in retrySet}

\* the locals of a thread that has made no call
NoCall ==
    [pc |-> "idle", target |-> NoState, path |-> NoPath, hop |-> 0,
     result |-> "none", adopted |-> FALSE, detected |-> NoState,
     fired |-> <<>>, io |-> NoIO]

\* the scheduled jobs of InvisibleHand.schedule_jobs
Jobs == {"check_game_change", "kick_pingers", "keep_player_alive"}

\* no run of find_text_in_rois on its own, no InvisibleHand
NoOcrRun ==
    /\ image = <<>>
    /\ rules = <<>>
    /\ consulted = <<>>
    /\ returned = NoState
    /\ main = "off"
    /\ job = [j \in Jobs |-> "rest"]
    /\ in_flight = 0
    /\ other = NoCall

InitWith(retrySet) ==
    /\ NoOcrRun
    /\ \E cfg \in Configs(retrySet) :
         /\ states = cfg.states
         /\ states_info = cfg.info
         /\ max_retries = cfg.max_retries
    /\ current_state = NoState
    /\ pc = "init"
    /\ attempt = 0
    /\ target = NoState
    /\ path = NoPath
    /\ hop = 0
    /\ result = "none"
    /\ adopted = FALSE
    /\ detected = NoState
    /\ fired = <<>>
    /\ io = NoIO
    /\ queue = <<>>
    /\ visited = {}
    /\ found = NoPath
    /\ transition_table = <<>>
    /\ cursor = 0

\* RetryWanted with the bound off by one: a retry after the last attempt too
RetryWantedLate(k, limit) == k < limit

\* line 127: is another attempt left after this failed one
RetryWanted(k, limit) == k < limit - 1

\* InitOutcome with retry_action run after every attempt, a successful one too
InitOutcomeEager(d) ==
    IF d.raised # ""
    THEN [pc |-> "failed", belief |-> NoState, result |-> d.raised,
          detected |-> NoState, retry |-> 0]
    ELSE IF d.name # NoState
    THEN IF d.name \in DOMAIN states
         THEN [pc |-> "idle", belief |-> d.name, result |-> "constructed",
               detected |-> d.name, retry |-> 1]
         ELSE [pc |-> "failed", belief |-> NoState, result |-> "KeyError",
               detected |-> d.name, retry |-> 0]
    ELSE IF RetryWanted(attempt, max_retries)
    THEN [pc |-> "init", belief |-> NoState, result |-> "none",
          detected |-> NoState, retry |-> 1]
    ELSE [pc |-> "failed", belief |-> NoState, result |-> "ValueError",
          detected |-> NoState, retry |-> 0]

\* InitOutcome with the final raise left out: the method falls through and
\* returns None
InitOutcomeLenient(d) ==
    IF d.raised # ""
    THEN [pc |-> "failed", belief |-> NoState, result |-> d.raised,
          detected |-> NoState, retry |-> 0]
    ELSE IF d.name # NoState
    THEN IF d.name \in DOMAIN states
         THEN [pc |-> "idle", belief |-> d.name, result |-> "constructed",
               detected |-> d.name, retry |-> 0]
         ELSE [pc |-> "failed", belief |-> NoState, result |-> "KeyError",
               detected |-> d.name, retry |-> 0]
    ELSE IF RetryWanted(attempt, max_retries)
    THEN [pc |-> "init", belief |-> NoState, result |-> "none",
          detected |-> NoState, retry |-> 1]
    ELSE [pc |-> "idle", belief |-> NoState, result |-> "constructed",
          detected |-> NoState, retry |-> 0]

\* what one pass of the for loop of detect_initial_state_with_retries does,
\* _detect_initial_state included
InitOutcome(d) ==
    IF d.raised # ""
    THEN [pc |-> "failed", belief |-> NoState, result |-> d.raised,
          detected |-> NoState, retry |-> 0]
    ELSE IF d.name # NoState
    THEN IF d.name \in DOMAIN states
         THEN [pc |-> "idle", belief |-> d.name, result |-> "constructed",
               detected |-> d.name, retry |-> 0]
         ELSE [pc |-> "failed", belief |-> NoState, result |-> "KeyError",
               detected |-> d.name, retry |-> 0]
    ELSE IF RetryWanted(attempt, max_retries)
    THEN [pc |-> "init", belief |-> NoState, result |-> "none",
          detected |-> NoState, retry |-> 1]
    ELSE [pc |-> "failed", belief |-> NoState, result |-> "ValueError",
          detected |-> NoState, retry |-> 0]

\* detect_initial_state_with_retries, one attempt; with the range exhausted
\* before any return the method returns None and construction completes
InitAttempt ==
    /\ pc = "init"
    /\ IF attempt >= max_retries
       THEN /\ pc' = "idle"
            /\ result' = "constructed"
            /\ UNCHANGED <<current_state, attempt, detected, io>>
       ELSE \E d \in Detections(states_info) :
              LET o == InitOutcome(d)
              IN /\ pc' = o.pc
                 /\ current_state' = o.belief
                 /\ result' = o.result
                 /\ detected' = o.detected
                 /\ attempt' = IF o.pc = "init" THEN attempt + 1 ELSE attempt
                 /\ io' = [Tally(io, d) EXCEPT !.retries = @ + o.retry]
    /\ UNCHANGED <<ocrVars, handVars, states, states_info, max_retries, target, path, hop,
                   adopted, fired, queue, visited, found, transition_table,
                   cursor>>

-----------------------------------------------------------------------------
(* OCRBasedStateMachine.detect_and_transition *)

\* EntryTest with the early return left out
EntryTestNever(tgt) == FALSE

\* line 155: the belief already names the target
EntryTest(tgt) == current_state = tgt

\* Adopt with a fallback: a detection of no screen makes the belief the
\* screen of the first rule
AdoptFirst(d) == IF d.name # NoState THEN d.name ELSE states_info[1]

\* Adopt with the detection ignored: the stale belief is kept
AdoptNever(d) == current_state

\* lines 163-165: the belief after the detection gave `d`
Adopt(d) == IF d.name # NoState THEN d.name ELSE current_state

\* FocusCalls with pull_foreground moved above the "no path" return
FocusAlways(p) == 1

\* FocusCalls with the pull_foreground call left out
FocusNever(p) == 0

\* lines 172-179: pull_foreground is called once a path was found
FocusCalls(p) == IF p = NoPath THEN 0 ELSE 1

\* lines 155-179: the entry test, the detection, the belief update, the second
\* test, the planner and the focus request; `d` is what the detection gives
CallOutcome(tgt, d) ==
    IF current_state = NoState
    THEN [pc |-> "idle", belief |-> current_state, result |-> "AttributeError",
          detected |-> NoState, path |-> NoPath, io |-> NoIO]
    ELSE IF EntryTest(tgt)
    THEN [pc |-> "idle", belief |-> current_state, result |-> "True",
          detected |-> NoState, path |-> NoPath, io |-> NoIO]
    ELSE
      LET seen == Tally(NoIO, d)
      IN IF d.raised # ""
         THEN [pc |-> "idle", belief |-> current_state, result |-> d.raised,
               detected |-> NoState, path |-> NoPath, io |-> seen]
         ELSE IF d.name # NoState /\ d.name \notin DOMAIN states
         THEN [pc |-> "idle", belief |-> current_state, result |-> "KeyError",
               detected |-> d.name, path |-> NoPath, io |-> seen]
         ELSE
           LET belief == Adopt(d)
           IN IF belief = tgt
              THEN [pc |-> "idle", belief |-> belief, result |-> "True",
                    detected |-> d.name, path |-> NoPath, io |-> seen]
              ELSE
                LET p == find_path(states, belief, tgt)
                    look == [seen EXCEPT !.focus = FocusCalls(p)]
                IN IF p = NoPath
                   THEN [pc |-> "idle", belief |-> belief, result |-> "False",
                         detected |-> d.name, path |-> NoPath, io |-> look]
                   ELSE [pc |-> "walk", belief |-> belief, result |-> "none",
                         detected |-> d.name, path |-> p, io |-> look]

\* the targets callers ask for: InvisibleHand asks the shipped controller for
\* "Scoreboard" and "In Game"; a generated configuration is asked for each of
\* its screens
Requests(sts) ==
    IF DOMAIN sts = create_states THEN {"Scoreboard", "In Game"} ELSE DOMAIN sts

\* no detection made
NoDetection ==
    [raised |-> "", name |-> NoState, lookups |-> 0, captures |-> 0,
     frames |-> 0, detections |-> 0]

\* lines 155-161: what the detection of a call for `tgt` can give; a call
\* that ends at line 155 or 157 makes none
EntryDetections(tgt) ==
    IF current_state = NoState \/ EntryTest(tgt)
    THEN {NoDetection} ELSE Detections(states_info)

\* detect_and_transition(tgt) is entered and runs up to the for loop
CallFor(tgt) ==
    /\ pc = "idle"
    /\ \E d \in EntryDetections(tgt) :
         \E o \in {CallOutcome(tgt, d)} :
            /\ target' = tgt
            /\ adopted' = (o.belief # current_state)
            /\ pc' = o.pc
            /\ current_state' = o.belief
            /\ result' = o.result
            /\ detected' = o.detected
            /\ path' = o.path
            /\ io' = o.io
            /\ hop' = IF o.pc = "walk" THEN 1 ELSE 0
    /\ fired' = <<>>
    /\ attempt' = 0
    /\ UNCHANGED <<ocrVars, states, states_info, max_retries, queue, visited,
                   found, transition_table, cursor>>

\* a caller invokes detect_and_transition(tgt)
Call ==
    /\ \E tgt \in Requests(states) : CallFor(tgt)
    /\ UNCHANGED handVars

\* EdgeTo with the target test left out: the first transition is taken
EdgeFirst(transitions, next) == 1

\* EdgeTo with the last matching transition for the first
EdgeLast(transitions, next) ==
    IF \E i \in 1..Len(transitions) : transitions[i].target = next
    THEN CHOOSE i \in 1..Len(transitions) :
           /\ transitions[i].target = next
           /\ \A j \in (i + 1)..Len(transitions) : transitions[j].target # next
    ELSE 0

\* lines 183-184: the first transition, in insertion order, of the belief's
\* State whose target is `next`; 0 when there is none (the for-else branch)
EdgeTo(transitions, next) ==
    IF \E i \in 1..Len(transitions) : transitions[i].target = next
    THEN CHOOSE i \in 1..Len(transitions) :
           /\ transitions[i].target = next
           /\ \A j \in 1..(i - 1) : transitions[j].target # next
    ELSE 0

\* line 201: self.ocr_processor.debug_save_image is looked up on an
\* OCRProcessor, which defines no such method: the AttributeError that ends
\* the call there, before the diagnostic capture and before line 202
NoDebugSaveImage == "AttributeError: debug_save_image"

\* Arrived with the hop's own state for the call's target (strict per hop)
ArrivedAtHop(d) == d.name = path[hop + 1]

\* line 193: the detection names the target of the call
Arrived(d) == d.name = target

\* HopBelief with the detection after the action trusted over the intended
\* screen
HopBeliefDetected(next, d) == IF d.name # NoState THEN d.name ELSE next

\* line 187: the belief after a hop's action is the intended next screen,
\* whatever the detection after it (`d`, lines 190-192) reports
HopBelief(next, d) == next

\* lines 181-202, one pass of the for loop: the edge lookup, the action, the
\* belief update, the detection and the target test; after the last pass,
\* lines 200-202, where debug_save_image is not a method of OCRProcessor
HopOutcome(act, d) ==
    LET next == path[hop + 1]
        e == EdgeTo(states[current_state], next)
    IN IF e = 0
       THEN [pc |-> "idle", belief |-> current_state, result |-> "False",
             detected |-> detected, fired |-> fired, io |-> io]
       ELSE
         LET shot == Append(fired, <<current_state, states[current_state][e].input>>)
         IN IF act = "raise"
            THEN [pc |-> "idle", belief |-> current_state, result |-> "ActionError",
                  detected |-> detected, fired |-> shot, io |-> io]
            ELSE
              LET seen == Tally(io, d)
              IN IF d.raised # ""
                 THEN [pc |-> "idle", belief |-> next, result |-> d.raised,
                       detected |-> detected, fired |-> shot, io |-> seen]
                 ELSE IF Arrived(d)
                 THEN [pc |-> "idle", belief |-> HopBelief(next, d),
                       result |-> "True",
                       detected |-> d.name, fired |-> shot, io |-> seen]
                 ELSE IF hop + 1 < Len(path)
                 THEN [pc |-> "walk", belief |-> HopBelief(next, d),
                       result |-> "none",
                       detected |-> d.name, fired |-> shot, io |-> seen]
                 ELSE [pc |-> "idle", belief |-> HopBelief(next, d),
                       result |-> NoDebugSaveImage,
                       detected |-> d.name, fired |-> shot, io |-> seen]

\* lines 186-192: what the detection after the action can give; an action
\* that raised is followed by none
HopDetections(act) ==
    IF act = "raise" THEN {NoDetection} ELSE Detections(states_info)

\* one pass of the for loop of the call in flight
HopBody ==
    /\ pc = "walk"
    /\ \E act \in {"ok", "raise"} : \E d \in HopDetections(act) :
         \E o \in {HopOutcome(act, d)} :
            /\ pc' = o.pc
            /\ current_state' = o.belief
            /\ result' = o.result
            /\ detected' = o.detected
            /\ fired' = o.fired
            /\ io' = o.io
            /\ hop' = IF o.pc = "walk" THEN hop + 1 ELSE hop
    /\ UNCHANGED <<ocrVars, states, states_info, max_retries, attempt, target,
                   path, adopted, queue, visited, found, transition_table,
                   cursor>>

Hop ==
    /\ HopBody
    /\ UNCHANGED handVars

Init == InitWith({DefaultMaxRetries})

Next == InitAttempt \/ Call \/ Hop

Spec == Init /\ [][Next]_vars

-----------------------------------------------------------------------------
(* Construction alone, with every max_retries from 1 to MaxRetries *)

InitConstruct == InitWith(1..MaxRetries)

SpecConstruct == InitConstruct /\ [][InitAttempt]_vars

\* Construction alone, with every max_retries from 0: OCRBasedStateMachine
\* takes any integer for it
InitConstructAny == InitWith(0..MaxRetries)

SpecConstructAny == InitConstructAny /\ [][InitAttempt]_vars

-----------------------------------------------------------------------------
(* The planner alone: _find_path run from every belief to every target of   *)
(* every configuration, one pass of its while loop per step                 *)

InitPlanner ==
    /\ NoOcrRun
    /\ \E cfg \in Configs({DefaultMaxRetries}) :
         /\ states = cfg.states
         /\ states_info = cfg.info
         /\ max_retries = cfg.max_retries
    /\ current_state \in DOMAIN states
    /\ target \in DOMAIN states
    /\ pc = "bfs"
    /\ queue = <<[state |-> current_state, path |-> <<>>]>>
    /\ visited = {}
    /\ found = NoPath
    /\ attempt = 0
    /\ path = NoPath
    /\ hop = 0
    /\ result = "none"
    /\ adopted = FALSE
    /\ detected = NoState
    /\ fired = <<>>
    /\ io = NoIO
    /\ transition_table = <<>>
    /\ cursor = 0

\* lines 216-224: one pass of the while loop
BfsIterate ==
    /\ pc = "bfs"
    /\ queue # <<>>
    /\ LET r == BfsStep(states, queue, visited, target)
       IN /\ queue' = r.queue
          /\ visited' = r.visited
          /\ found' = r.found
          /\ pc' = IF r.done THEN "bfs_done" ELSE "bfs"
    /\ UNCHANGED <<ocrVars, handVars, states, states_info, max_retries, current_state, attempt,
                   target, path, hop, result, adopted, detected, fired, io,
                   transition_table, cursor>>

\* line 226: the queue ran empty, return None
BfsExhausted ==
    /\ pc = "bfs"
    /\ queue = <<>>
    /\ found' = NoPath
    /\ pc' = "bfs_done"
    /\ UNCHANGED <<ocrVars, handVars, states, states_info, max_retries, current_state, attempt,
                   target, path, hop, result, adopted, detected, fired, io,
                   queue, visited, transition_table, cursor>>

NextPlanner == BfsIterate \/ BfsExhausted

SpecPlanner == InitPlanner /\ [][NextPlanner]_vars

\* the planner runs to its return: the thread that called _find_path keeps
\* executing the while loop, nothing else being able to stop it
SpecPlannerRuns == SpecPlanner /\ WF_vars(NextPlanner)

-----------------------------------------------------------------------------
(* create_state_handler from its first line: setup_transitions, one          *)
(* add_transition per step, over the shipped table and over every generated *)
(* table whose targets may name a screen the catalog does not have, then    *)
(* the constructor's initial detection                                      *)

\* a screen name no catalog has
Unlisted == "Lobby"

\* the generated tables, keyed by screens of the catalog as the docstring of
\* setup_transitions has it, with targets in the catalog or not
SetupTables ==
    UNION {{Labelled(raw, 1)
              : raw \in [1..n -> SmallNames \X (SmallNames \cup {Unlisted})]}
           : n \in 0..MaxEdges}

InitSetup ==
    /\ NoOcrRun
    /\ \E cfg \in {[catalog |-> create_states, table |-> create_transitions,
                      info |-> create_states_info]}
                   \cup {[catalog |-> SmallNames, table |-> t, info |-> SmallInfo]
                          : t \in SetupTables} :
         /\ states = [n \in cfg.catalog |-> NewState]
         /\ transition_table = cfg.table
         /\ states_info = cfg.info
    /\ max_retries = DefaultMaxRetries
    /\ cursor = 1
    /\ pc = "setup"
    /\ current_state = NoState
    /\ attempt = 0
    /\ target = NoState
    /\ path = NoPath
    /\ hop = 0
    /\ result = "none"
    /\ adopted = FALSE
    /\ detected = NoState
    /\ fired = <<>>
    /\ io = NoIO
    /\ queue = <<>>
    /\ visited = {}
    /\ found = NoPath

\* Defined with the lookup made lenient: any name passes
DefinedAny(sts, name) == TRUE

\* lines 340 and 342: states[name] finds the name; a KeyError when it does not
Defined(sts, name) == name \in DOMAIN sts

\* lines 339-343: one pass of the inner loop of setup_transitions
SetupStep ==
    /\ pc = "setup"
    /\ cursor <= Len(transition_table)
    /\ LET e == transition_table[cursor]
       IN IF Defined(states, e[1]) /\ Defined(states, e[3])
          THEN /\ states' = [states EXCEPT
                                ![e[1]] = add_transition(states[e[1]], e[2], e[3])]
               /\ cursor' = cursor + 1
               /\ UNCHANGED <<pc, result>>
          ELSE /\ pc' = "failed"
               /\ result' = "KeyError"
               /\ UNCHANGED <<states, cursor>>
    /\ UNCHANGED <<ocrVars, handVars, states_info, max_retries, current_state, attempt, target,
                   path, hop, adopted, detected, fired, io, queue, visited,
                   found, transition_table>>

\* lines 377-379: setup_transitions returned; OCRBasedStateMachine(...) is
\* entered
SetupDone ==
    /\ pc = "setup"
    /\ cursor > Len(transition_table)
    /\ pc' = "init"
    /\ UNCHANGED <<ocrVars, handVars, states, states_info, max_retries, current_state, attempt,
                   target, path, hop, result, adopted, detected, fired, io,
                   queue, visited, found, transition_table, cursor>>

NextSetup == SetupStep \/ SetupDone \/ InitAttempt

SpecSetup == InitSetup /\ [][NextSetup]_vars

-----------------------------------------------------------------------------
(* OCRProcessor.find_text_in_rois on its own, one rule per step, over rules  *)
(* with texts and regions and over frames given by the tokens the OCR reads *)
(* in each region. A text is a sequence of characters.                      *)

\* most rules in a generated rules mapping
MaxRules == 2

\* the regions the generated rules look at, as the four fractions (x_start,
\* y_start, x_end, y_end) of create_states_info, in hundredths: the top band
\* and the top-left corner
Regions == {<<0, 0, 100, 25>>, <<0, 0, 30, 25>>}

\* regions in the directional shorthand of obtain_roi: a direction and a
\* fraction, in hundredths
Shorthands == {<<"Top", 25>>}

\* the expected texts of the generated rules
Needles == {<<"A">>, <<"A", " ">>}

\* the token lists the OCR reads in a region (the 'text' list of its data)
OcrTexts ==
    {<<>>,
     << <<"B">> >>,
     << <<>>, <<"B", "A">> >>,
     << <<"A", " ">> >>,
     << <<"B">>, <<" ", "A", " ", "B">> >>,
     << <<" ", " ">>, <<" ", "A">> >>,
     << <<"B", "A">>, <<"A", " ", "B">> >>}

\* the rules mappings with regions from `rois`, keyed by the screens of
\* SmallInfo in order
RuleSetsOver(rois) ==
    UNION {{[i \in 1..n |-> [name |-> SmallInfo[i], roi |-> r[i][1],
                              text |-> r[i][2]]]
              : r \in [1..n -> rois \X Needles]}
           : n \in 0..MaxRules}

\* the generated rules mappings: regions in four fractions, as all the rules
\* of create_states_info are
RuleSets == RuleSetsOver(Regions)

\* str.strip() without the trimming
stripNot(text) == text

\* str.strip(): the text without its leading and trailing whitespace
RECURSIVE strip(_)
strip(text) ==
    IF text = <<>> THEN text
    ELSE IF Head(text) = " " THEN strip(Tail(text))
    ELSE IF text[Len(text)] = " " THEN strip(SubSeq(text, 1, Len(text) - 1))
    ELSE text

\* Python's `needle in hay` on strings
Contains(needle, hay) ==
    \E i \in 0..(Len(hay) - Len(needle)) :
        SubSeq(hay, i + 1, i + Len(needle)) = needle

\* obtain_roi: the region a roi denotes, in four fractions; the shorthand is
\* a band of the given fraction along one side of the frame
obtain_roi(roi) ==
    IF Len(roi) = 4 THEN roi
    ELSE IF roi[1] = "Top" THEN <<0, 0, 100, roi[2]>>
    ELSE IF roi[1] = "Bottom" THEN <<0, 100 - roi[2], 100, 100>>
    ELSE IF roi[1] = "Left" THEN <<0, 0, roi[2], 100>>
    ELSE <<100 - roi[2], 0, 100, 100>>

\* line 171: int(roi[0] * w) with roi[0] a str is int() of the string
\* repeated w times, which is no number: ValueError; obtain_roi is not called
RoiRaises(roi) == Len(roi) = 2

\* perform_ocr_for_state_engine_text(image, roi)['text']: the tokens read in
\* the region
perform_ocr_for_state_engine_text(img, roi) == img[roi]

\* lines 193-195: some token of the rule's region, stripped, has the text
TextFound(img, rule) ==
    LET ocr_data == perform_ocr_for_state_engine_text(img, rule.roi)
    IN \E k \in 1..Len(ocr_data) : Contains(rule.text, strip(ocr_data[k]))

InitOcrWith(ruleSets) ==
    /\ image \in [Regions -> OcrTexts]
    /\ rules \in ruleSets
    /\ consulted = <<>>
    /\ returned = NoState
    /\ main = "off"
    /\ job = [j \in Jobs |-> "rest"]
    /\ in_flight = 0
    /\ other = NoCall
    /\ pc = "ocr"
    /\ states = [n \in SmallNames |-> NewState]
    /\ states_info = SmallInfo
    /\ max_retries = DefaultMaxRetries
    /\ current_state = NoState
    /\ attempt = 0
    /\ target = NoState
    /\ path = NoPath
    /\ hop = 0
    /\ result = "none"
    /\ adopted = FALSE
    /\ detected = NoState
    /\ fired = <<>>
    /\ io = NoIO
    /\ queue = <<>>
    /\ visited = {}
    /\ found = NoPath
    /\ transition_table = <<>>
    /\ cursor = 0

InitOcr == InitOcrWith(RuleSets)

\* lines 189-195: one pass of the outer for loop, on the next rule of the
\* mapping; the ValueError of line 171 ends the call
FindTextStep ==
    /\ pc = "ocr"
    /\ Len(consulted) < Len(rules)
    /\ LET rule == rules[Len(consulted) + 1]
       IN /\ consulted' = Append(consulted, rule.name)
          /\ IF RoiRaises(rule.roi)
             THEN returned' = "ValueError" /\ pc' = "ocr_done"
             ELSE IF TextFound(image, rule)
             THEN returned' = rule.name /\ pc' = "ocr_done"
             ELSE UNCHANGED <<returned, pc>>
    /\ UNCHANGED <<image, rules>>
    /\ UNCHANGED <<states, states_info, max_retries, current_state, attempt,
                   target, path, hop, result, adopted, detected, fired, io,
                   queue, visited, found, transition_table, cursor, handVars>>

\* line 196: the loop ran out of rules, return None
FindTextNone ==
    /\ pc = "ocr"
    /\ Len(consulted) = Len(rules)
    /\ returned' = NoState
    /\ pc' = "ocr_done"
    /\ UNCHANGED <<image, rules, consulted>>
    /\ UNCHANGED <<states, states_info, max_retries, current_state, attempt,
                   target, path, hop, result, adopted, detected, fired, io,
                   queue, visited, found, transition_table, cursor, handVars>>

NextOcr == FindTextStep \/ FindTextNone

SpecOcr == InitOcr /\ [][NextOcr]_vars

\* find_text_in_rois over rules whose regions are in four fractions or in the
\* directional shorthand
InitOcrForms == InitOcrWith(RuleSetsOver(Regions \cup Shorthands))

SpecOcrForms == InitOcrForms /\ [][NextOcr]_vars

-----------------------------------------------------------------------------------------------------------------------------------------------------
(* The orchestration of hand.py: InvisibleHand.__init__, run and the jobs   *)
(* of schedule_jobs, with their detect_and_transition calls on the shared   *)
(* controller. A place is the line of hand.py about to run; at a call site, *)
(* "<line>*" is the call in flight.                                         *)

\* the call sites of the jobs: the target asked for and the place after the call
JobCalls ==
    [L109 |-> [target |-> "In Game", next |-> "L112"],
     L112 |-> [target |-> "Scoreboard", next |-> "rest"],
     L140 |-> [target |-> "In Game", next |-> "L144"],
     L144 |-> [target |-> "Scoreboard", next |-> "rest"]]

\* the call sites of __init__ (line 25) and relaunch_game (line 102)
MainCalls ==
    [L25 |-> [target |-> "Scoreboard", next |-> "run"],
     L102 |-> [target |-> "Scoreboard", next |-> "run"]]

\* the first line of a job
JobEntry == [check_game_change |-> "L106", kick_pingers |-> "L45",
             keep_player_alive |-> "L140"]

\* line 20: create_state_handler() is about to construct the controller
InitHand ==
    /\ main = "L25"
    /\ job = [j \in Jobs |-> "rest"]
    /\ in_flight = 0
    /\ other = NoCall
    /\ image = <<>>
    /\ rules = <<>>
    /\ consulted = <<>>
    /\ returned = NoState
    /\ states = ShippedStates
    /\ states_info = create_states_info
    /\ max_retries = DefaultMaxRetries
    /\ current_state = NoState
    /\ pc = "init"
    /\ attempt = 0
    /\ target = NoState
    /\ path = NoPath
    /\ hop = 0
    /\ result = "none"
    /\ adopted = FALSE
    /\ detected = NoState
    /\ fired = <<>>
    /\ io = NoIO
    /\ queue = <<>>
    /\ visited = {}
    /\ found = NoPath
    /\ transition_table = <<>>
    /\ cursor = 0

\* the controller is left alone
ControllerFrame ==
    UNCHANGED <<states, states_info, max_retries, current_state, pc, attempt,
                target, path, hop, result, adopted, detected, fired, io, queue,
                visited, found, transition_table, cursor, ocrVars>>

\* MayStart with every due job started at once, each on a thread of its own
MayStartThreaded(jb) == TRUE

\* line 37, schedule.run_pending() with jobs registered by do(): a due job is
\* run on the calling thread, after the job before it has returned
MayStart(jb) == \A j \in Jobs : jb[j] = "rest"

\* line 37: run_pending runs a job that is due
StartJob ==
    /\ main = "run"
    /\ MayStart(job)
    /\ \E j \in Jobs :
         /\ job[j] = "rest"
         /\ job' = [job EXCEPT ![j] = JobEntry[j]]
    /\ UNCHANGED <<main, in_flight, other>>
    /\ ControllerFrame

\* lines 104-114: server_game_change() is true or not; lines 44-73:
\* kick_pingers, which makes no call on the controller
JobStep ==
    /\ \E j \in Jobs :
         \/ /\ job[j] = "L106"
            /\ \E nxt \in {"L109", "rest"} : job' = [job EXCEPT ![j] = nxt]
         \/ /\ job[j] = "L45"
            /\ job' = [job EXCEPT ![j] = "rest"]
    /\ UNCHANGED <<main, in_flight, other>>
    /\ ControllerFrame

\* a job enters detect_and_transition at one of its call sites
JobCallEnter ==
    /\ \E j \in Jobs :
         /\ job[j] \in DOMAIN JobCalls
         /\ CallFor(JobCalls[job[j]].target)
         /\ job' = [job EXCEPT ![j] = job[j] \o "*"]
    /\ in_flight' = in_flight + 1
    /\ UNCHANGED <<main, other>>

\* the call in flight walks one hop
CallWalk ==
    /\ in_flight > 0
    /\ HopBody
    /\ UNCHANGED handVars

\* the call of a job has ended: with a value, and the job goes on; with
\* GameWindowNotFoundException, which run catches at line 39; with any other
\* exception, which nothing catches
JobCallReturn ==
    /\ pc = "idle"
    /\ \E j \in Jobs, site \in DOMAIN JobCalls :
         /\ job[j] = site \o "*"
         /\ IF result \in {"True", "False"}
            THEN /\ job' = [job EXCEPT ![j] = JobCalls[site].next]
                 /\ UNCHANGED main
            ELSE /\ job' = [job EXCEPT ![j] = "rest"]
                 /\ main' = IF result = "GameWindowNotFoundException"
                             THEN "relaunch" ELSE "crashed"
    /\ in_flight' = in_flight - 1
    /\ UNCHANGED other
    /\ ControllerFrame

\* line 25 and line 102: __init__ and relaunch_game enter the call
MainCallEnter ==
    /\ main \in DOMAIN MainCalls
    /\ CallFor(MainCalls[main].target)
    /\ main' = main \o "*"
    /\ in_flight' = in_flight + 1
    /\ UNCHANGED <<job, other>>

\* that call has ended: with a value, and schedule_jobs / run goes on; with
\* an exception, outside the try of run
MainCallReturn ==
    /\ pc = "idle"
    /\ \E site \in DOMAIN MainCalls :
         /\ main = site \o "*"
         /\ main' = IF result \in {"True", "False"} THEN MainCalls[site].next
                                                      ELSE "crashed"
    /\ in_flight' = in_flight - 1
    /\ UNCHANGED <<job, other>>
    /\ ControllerFrame

\* lines 34 and 39-42: GameWindowHandler() finds no window between two rounds
\* of jobs
WindowLost ==
    /\ main = "run"
    /\ \A j \in Jobs : job[j] = "rest"
    /\ main' = "relaunch"
    /\ UNCHANGED <<job, in_flight, other>>
    /\ ControllerFrame

\* lines 85-102: relaunch_game; the server is up (line 102 is next) or not
\* (launch_community_game, then back to run)
Relaunch ==
    /\ main = "relaunch"
    /\ \E nxt \in {"L102", "run"} : main' = nxt
    /\ UNCHANGED <<job, in_flight, other>>
    /\ ControllerFrame

NextHand ==
    \/ InitAttempt
    \/ StartJob
    \/ JobStep
    \/ JobCallEnter
    \/ CallWalk
    \/ JobCallReturn
    \/ MainCallEnter
    \/ MainCallReturn
    \/ WindowLost
    \/ Relaunch

SpecHand == InitHand /\ [][NextHand]_vars

-----------------------------------------------------------------------------
(* One State on its own: any sequence of add_transition calls, each with a  *)
(* trigger label and a (target_state, action) value, which is what the dict *)
(* stores under the label. transition_table records the calls made.         *)

\* the trigger labels of the calls
Labels == {"enter", "exit"}

\* the values registered: a target screen and an action
Registrations == SmallNames \X {"press", "click"}

\* State("Menu"), no transition added yet
InitState ==
    /\ NoOcrRun
    /\ states = [n \in {"Menu"} |-> NewState]
    /\ states_info = <<>>
    /\ max_retries = DefaultMaxRetries
    /\ current_state = NoState
    /\ pc = "state"
    /\ attempt = 0
    /\ target = NoState
    /\ path = NoPath
    /\ hop = 0
    /\ result = "none"
    /\ adopted = FALSE
    /\ detected = NoState
    /\ fired = <<>>
    /\ io = NoIO
    /\ queue = <<>>
    /\ visited = {}
    /\ found = NoPath
    /\ transition_table = <<>>
    /\ cursor = 0

\* state.add_transition(input, target_state, action)
AddTransition ==
    /\ pc = "state"
    /\ Len(transition_table) < MaxCalls
    /\ \E input \in Labels, value \in Registrations :
         /\ states' = [states EXCEPT
                          !["Menu"] = add_transition(states["Menu"], input, value)]
         /\ transition_table' = Append(transition_table, <<"Menu", input, value>>)
    /\ UNCHANGED <<ocrVars, handVars, states_info, max_retries, current_state,
                   pc, attempt, target, path, hop, result, adopted, detected,
                   fired, io, queue, visited, found, cursor>>

SpecState == InitState /\ [][AddTransition]_vars

-----------------------------------------------------------------------------
(* Two threads calling detect_and_transition on one controller with nothing *)
(* to keep them apart: each has its own locals (target_state_name, path,    *)
(* the position in the for loop), both read and write self.current_state.   *)
(* The thread running is the one whose locals are in target, path, hop, ... *)
(* and the interpreter may hand over to the other between two passes of the *)
(* for loop, and before and after a call.                                   *)

\* the locals of the thread running
Running ==
    [pc |-> pc, target |-> target, path |-> path, hop |-> hop,
     result |-> result, adopted |-> adopted, detected |-> detected,
     fired |-> fired, io |-> io]

\* the screens the two threads' frames can show: those of a running game
GameScreens == {"Menu", "Scoreboard", "In Game", "Deploy"}

\* the controller of the shipped graph, with the shipped rules of those
\* screens, about to be constructed
InitThreads ==
    /\ NoOcrRun
    /\ states = ShippedStates
    /\ states_info = SelectSeq(create_states_info, LAMBDA n : n \in GameScreens)
    /\ max_retries = DefaultMaxRetries
    /\ current_state = NoState
    /\ pc = "init"
    /\ attempt = 0
    /\ target = NoState
    /\ path = NoPath
    /\ hop = 0
    /\ result = "none"
    /\ adopted = FALSE
    /\ detected = NoState
    /\ fired = <<>>
    /\ io = NoIO
    /\ queue = <<>>
    /\ visited = {}
    /\ found = NoPath
    /\ transition_table = <<>>
    /\ cursor = 0

\* the interpreter switches threads: the locals are exchanged, self.current_state
\* is the one attribute both see
Switch ==
    /\ pc \in {"idle", "walk"}
    /\ other' = Running
    /\ pc' = other.pc
    /\ target' = other.target
    /\ path' = other.path
    /\ hop' = other.hop
    /\ result' = other.result
    /\ adopted' = other.adopted
    /\ detected' = other.detected
    /\ fired' = other.fired
    /\ io' = other.io
    /\ UNCHANGED <<states, states_info, max_retries, current_state, attempt,
                   queue, visited, found, transition_table, cursor, ocrVars,
                   main, job, in_flight>>

\* a thread makes its call: one call per thread
ThreadCall ==
    /\ target = NoState
    /\ Call

NextThreads == InitAttempt \/ ThreadCall \/ Hop \/ Switch

SpecThreads == InitThreads /\ [][NextThreads]_vars

-----
(* The screen graph as a directed graph *)

\* the screens one transition away from `s`
Successors(sts, s) == {sts[s][i].target : i \in 1..Len(sts[s])}

\* the screens at most k transitions away from `s`
RECURSIVE Ball(_, _, _)
Ball(sts, s, k) ==
    IF k = 0 THEN {s}
    ELSE LET b == Ball(sts, s, k - 1)
         IN b \cup UNION {Successors(sts, n) : n \in b}

Reachable(sts, s, t) == t \in Ball(sts, s, Cardinality(DOMAIN sts))

\* the least number of transitions from `s` to a reachable `t`
Distance(sts, s, t) ==
    CHOOSE k \in 0..Cardinality(DOMAIN sts) :
        /\ t \in Ball(sts, s, k)
        /\ \A j \in 0..(k - 1) : t \notin Ball(sts, s, j)

\* the operation ended by raising
Raised == result \in {"GameWindowNotFoundException", "AttributeError",
                      "KeyError", "ValueError", "ActionError",
                      NoDebugSaveImage}

-----------------------------------------------------------------------------
(* Claims *)

\* C1: for every graph and every pair with the target reachable from the
\* belief, _find_path returns a path that starts at the belief, ends at the
\* target and has as many hops as the least number of transitions between
\* them; from a screen to itself the path is that screen alone.
PlannerShortestPath ==
    (pc = "bfs_done" /\ Reachable(states, current_state, target)) =>
        /\ found # NoPath
        /\ found[1] = current_state
        /\ found[Len(found)] = target
        /\ Len(found) - 1 = Distance(states, current_state, target)
        /\ (current_state = target => found = <<current_state>>)
        /\ found = find_path(states, current_state, target)

PlannerShortestPathWitness ==
    /\ pc = "bfs_done"
    /\ Len(found) = 4
    /\ Distance(states, current_state, target) = 3

\* C2: a call entered with the belief equal to the target returns True at
\* once: no window lookup, capture, detection, focus request or edge action,
\* and the belief stays as it was.
ImmediateReturn ==
    [][(pc = "idle" /\ current_state # NoState /\ target' = current_state) =>
          /\ pc' = "idle"
          /\ result' = "True"
          /\ io' = NoIO
          /\ fired' = <<>>
          /\ path' = NoPath
          /\ current_state' = current_state]_vars

ImmediateReturnWitness ==
    /\ pc = "idle"
    /\ result = "True"
    /\ target = current_state
    /\ io = NoIO
    /\ fired = <<>>

\* C3: when a call is entered with a belief other than the target and its
\* detection reports a known screen, the belief is that screen when the
\* planner runs: the planned path is the planner's answer from the detected
\* screen and starts there; when the detected screen is the target the call
\* returns True without a path, a focus request or an action.
DetectionPrecedence ==
    [][(pc = "idle" /\ current_state # target' /\ detected' # NoState /\ ~Raised') =>
          /\ current_state' = detected'
          /\ detected' # target' =>
                /\ path' = find_path(states, detected', target')
                /\ path' # NoPath => path'[1] = detected'
          /\ detected' = target' =>
                /\ pc' = "idle"
                /\ result' = "True"
                /\ path' = NoPath
                /\ fired' = <<>>
                /\ io'.focus = 0]_vars

DetectionPrecedenceWitness ==
    /\ pc = "walk"
    /\ hop = 1
    /\ fired = <<>>
    /\ adopted
    /\ detected = path[1]
    /\ current_state = detected

\* C4: when the target is unreachable from the screen the call plans from,
\* the planner returns None and the call returns False, not an exception,
\* without the executor: no focus request and no edge action.
NoPathFails ==
    [][(pc = "idle" /\ ~Raised' /\ ~Reachable(states, current_state', target')) =>
          /\ find_path(states, current_state', target') = NoPath
          /\ pc' = "idle"
          /\ result' = "False"
          /\ path' = NoPath
          /\ io'.focus = 0
          /\ fired' = <<>>]_vars

NoPathFailsWitness ==
    /\ pc = "idle"
    /\ result = "False"
    /\ path = NoPath
    /\ io.detections = 1
    /\ io.focus = 0
    /\ ~Reachable(states, current_state, target)

\* C5 as claimed: a call that fails because the target is unreachable leaves
\* the belief the screen it was entered with.
NoPathKeepsBelief ==
    (pc = "idle" /\ result = "False" /\ path = NoPath
       /\ ~Reachable(states, current_state, target)) => ~adopted

\* C5: a call that finds the target unreachable from the screen it plans from
\* returns False and leaves the belief at that screen: the screen its
\* detection reported, or the belief it was entered with when the detection
\* reported none.
NoPathBeliefIsDetected ==
    [][(pc = "idle" /\ ~Raised' /\ ~Reachable(states, current_state', target')) =>
          /\ result' = "False"
          /\ current_state' = IF detected' # NoState THEN detected'
                                                     ELSE current_state]_vars

NoPathBeliefIsDetectedWitness ==
    /\ pc = "idle"
    /\ result = "False"
    /\ path = NoPath
    /\ adopted
    /\ current_state = detected
    /\ ~Reachable(states, current_state, target)

\* C6: once the detection after a hop's action reports the call's target, the
\* call has returned True and has fired the actions of the hops up to that
\* one only, whatever is left of the path.
ShortCircuit ==
    (path # NoPath /\ detected = target) =>
        /\ pc = "idle"
        /\ result = "True"
        /\ Len(fired) = hop
        /\ current_state = path[hop + 1]

ShortCircuitWitness ==
    /\ pc = "idle"
    /\ result = "True"
    /\ Len(path) = 4
    /\ hop = 1
    /\ Len(fired) = 1
    /\ detected = target

\* the graph of the scenario: Menu <-> Scoreboard, Menu -> In Game, no more
ScenarioGraph(sts) ==
    /\ DOMAIN sts = SmallNames
    /\ Successors(sts, "Menu") = {"Scoreboard", "In Game"}
    /\ Successors(sts, "Scoreboard") = {"Menu"}
    /\ Successors(sts, "In Game") = {}

\* the actions of the shipped table on the way Scoreboard, Menu, In Game
ScenarioActions == << <<"Scoreboard", "exit_to_menu">>, <<"Menu", "enter_game">> >>

\* C7: in the scenario graph and in the shipped graph, a walk from Scoreboard
\* to In Game is planned as Scoreboard, Menu, In Game; it fires the
\* Scoreboard->Menu action first and the Menu->In Game action second, and it
\* returns True when the detection after the second action reports In Game.
ScoreboardToInGame ==
    ((ScenarioGraph(states) \/ states = ShippedStates)
       /\ path # NoPath /\ path[1] = "Scoreboard" /\ target = "In Game") =>
        /\ path = <<"Scoreboard", "Menu", "In Game">>
        /\ Len(fired) <= 2
        /\ \A i \in 1..Len(fired) :
              /\ fired[i][1] = path[i]
              /\ get_transition(states[path[i]], fired[i][2]) = path[i + 1]
        /\ states = ShippedStates => fired = SubSeq(ScenarioActions, 1, Len(fired))
        /\ (Len(fired) = 2 /\ detected = "In Game") =>
              (pc = "idle" /\ result = "True")

ScoreboardToInGameWitness ==
    /\ states = ShippedStates
    /\ pc = "idle"
    /\ result = "True"
    /\ path = <<"Scoreboard", "Menu", "In Game">>
    /\ fired = ScenarioActions
    /\ detected = "In Game"

\* C8: a construction that succeeds at attempt k+1, after k attempts that
\* detected no screen, has the detected screen as its belief and has run the
\* retry action k times, once after each failed attempt.
RetriesBetweenAttempts ==
    /\ pc = "init" => (io.retries = io.detections /\ attempt = io.retries)
    /\ pc = "idle" =>
          /\ current_state = detected
          /\ current_state \in DOMAIN states
          /\ io.retries + 1 = io.detections
          /\ io.detections <= max_retries

RetriesBetweenAttemptsWitness ==
    /\ pc = "idle"
    /\ max_retries = 3
    /\ io.detections = 3
    /\ io.retries = 2

\* C9: the initial detection makes at most max_retries attempts; when all of
\* them detect no screen it has made max_retries attempts and max_retries - 1
\* retry actions, it ends with the fatal ValueError and no controller exists.
BoundedInitialDetection ==
    /\ io.detections <= max_retries
    /\ pc = "init" => attempt < max_retries
    /\ pc = "idle" => detected # NoState
    /\ result = "ValueError" =>
          /\ pc = "failed"
          /\ current_state = NoState
          /\ io.detections = max_retries
          /\ io.retries + 1 = max_retries

BoundedInitialDetectionWitness ==
    /\ pc = "failed"
    /\ result = "ValueError"
    /\ max_retries = 3
    /\ io.detections = 3
    /\ io.retries = 2

\* C10: once the controller is constructed, whatever calls were made and
\* however they ended, the belief is a screen of the graph.
BeliefInGraph ==
    pc \in {"idle", "walk"} => current_state \in DOMAIN states

BeliefInGraphWitness ==
    /\ pc = "idle"
    /\ result = NoDebugSaveImage
    /\ Len(fired) = 2
    /\ current_state \in DOMAIN states

\* C11: a path the planner returns starts at the belief, and every screen on
\* it after the first is the target of a transition of the screen before it,
\* so every screen on it is reachable from the belief.
PlannerValidPath ==
    (pc = "bfs_done" /\ found # NoPath) =>
        /\ found[1] = current_state
        /\ \A i \in 1..(Len(found) - 1) :
              found[i + 1] \in Successors(states, found[i])
        /\ \A i \in 1..Len(found) : Reachable(states, current_state, found[i])

PlannerValidPathWitness ==
    /\ pc = "bfs_done"
    /\ Len(found) = 3
    /\ found[1] = current_state
    /\ found[2] \in Successors(states, found[1])
    /\ found[3] \in Successors(states, found[2])
    /\ found[3] \notin Successors(states, found[1])

\* the detection of the call in flight raised
PerceptionRaised == result \in {"GameWindowNotFoundException", "AttributeError"}

\* the walk fired the action of every hop of the path, none of them raised,
\* every detection after them gave an answer and the last was not the target
PathExhausted ==
    /\ pc = "idle"
    /\ path # NoPath
    /\ Len(fired) = Len(path) - 1
    /\ result # "ActionError"
    /\ ~PerceptionRaised
    /\ detected # target

\* C12 as claimed: a call that exhausts its path returns False.
ExhaustionReturnsFalse ==
    PathExhausted => result = "False"

\* C13 as claimed: a call for the target of the call before it, which
\* exhausted its path without a detection of that target, returns True only
\* with a detection of its own that reports the target.
NoSilentSuccess ==
    [][(PathExhausted /\ target' = target /\ result' = "True") =>
          (io'.detections > 0 /\ detected' = target')]_vars

\* C14 as claimed: after an edge action raised, no further action was fired,
\* the call has ended with the failure, and the belief is a screen a detection
\* confirmed: past the first hop, the screen the last detection reported.
ActionFailureAtConfirmed ==
    (pc = "idle" /\ result = "ActionError") =>
        /\ Len(fired) = hop
        /\ current_state = path[hop]
        /\ hop > 1 => detected = current_state

\* the capture provider gave no frame to a detection of the operation: the
\* window was not found, or capture_window returned None
PerceptionUnavailable == io.lookups > io.frames

\* C15 as claimed: a call in which the capture provider gave no frame ends
\* with False returned to the caller, and fires no action after that.
UnavailableReturnsFalse ==
    (pc = "idle" /\ target # NoState /\ PerceptionUnavailable) =>
        result = "False"

\* C16 as claimed: an initial attempt in which the capture provider gave no
\* frame is a failed attempt of the retry loop: construction does not end
\* with attempts left, and the retry action has run after each failed attempt
\* but the last.
UnavailableIsRetried ==
    (pc = "failed" /\ PerceptionUnavailable) =>
        /\ io.lookups = max_retries
        /\ io.retries = max_retries - 1

\* the entries of the table whose source is `s`, in the order of the table
EntriesOf(table, s) ==
    LET own == SelectSeq(table, LAMBDA e : e[1] = s)
    IN [i \in 1..Len(own) |-> [input |-> own[i][2], target |-> own[i][3]]]

\* some entry of the table names a target the catalog does not have
UndefinedTarget ==
    \E k \in 1..Len(transition_table) :
        transition_table[k][3] \notin DOMAIN states

\* C17: with a target of the table outside the catalog, setup_transitions
\* ends with KeyError and no controller is ever constructed; with every
\* target in the catalog it returns, never with that error, and every screen
\* then holds the transitions of its table entry, in order, and no other.
SetupChecksTargets ==
    /\ UndefinedTarget =>
          /\ pc \in {"setup", "failed"}
          /\ pc = "failed" => result = "KeyError"
          /\ current_state = NoState
    /\ (~UndefinedTarget /\ pc # "setup") =>
          /\ result # "KeyError"
          /\ cursor = Len(transition_table) + 1
          /\ \A s \in DOMAIN states : states[s] = EntriesOf(transition_table, s)
          /\ states = setup_transitions(DOMAIN states, transition_table)

SetupChecksTargetsWitness ==
    /\ pc = "failed"
    /\ result = "KeyError"
    /\ cursor = 3
    /\ transition_table[3][3] = Unlisted
    /\ Len(states[transition_table[1][1]]) > 0

\* the text between the first and the last character of `text` that is not
\* whitespace, empty when it has none
Trimmed(text) ==
    LET inked == {i \in 1..Len(text) : text[i] # " "}
    IN IF inked = {} THEN <<>>
       ELSE SubSeq(text, CHOOSE a \in inked : \A i \in inked : a <= i,
                         CHOOSE b \in inked : \A i \in inked : i <= b)

\* the rule's text is part of a trimmed token read in the rule's region
Matches(img, rule) ==
    \E k \in 1..Len(img[rule.roi]) :
        \E a, b \in 0..Len(Trimmed(img[rule.roi][k])) :
            SubSeq(Trimmed(img[rule.roi][k]), a + 1, b) = rule.text

\* the place in the mapping of the first rule that matches, 0 when none does
FirstMatch(img, rls) ==
    IF \E i \in 1..Len(rls) : Matches(img, rls[i])
    THEN CHOOSE i \in 1..Len(rls) :
           /\ Matches(img, rls[i])
           /\ \A j \in 1..(i - 1) : ~Matches(img, rls[j])
    ELSE 0

\* C18: find_text_in_rois leaves the rules mapping as it is; it returns the
\* name of the first rule, in insertion order, whose text is part of a
\* trimmed token of its region, having read the regions of the rules up to
\* that one and of no later rule; it returns None when no rule matches.
FirstRuleWins ==
    [][/\ rules' = rules
       /\ pc' = "ocr_done" =>
             LET m == FirstMatch(image, rules)
             IN /\ returned' = IF m = 0 THEN NoState ELSE rules[m].name
                /\ consulted' = [i \in 1..(IF m = 0 THEN Len(rules) ELSE m)
                                    |-> rules[i].name]
                /\ returned' = find_text_in_rois(
                                  {rules[i].name : i \in {j \in 1..Len(rules) :
                                                            Matches(image, rules[j])}},
                                  [i \in 1..Len(rules) |-> rules[i].name])]_vars

FirstRuleWinsWitness ==
    /\ pc = "ocr_done"
    /\ Len(rules) = 2
    /\ returned = rules[1].name
    /\ consulted = <<rules[1].name>>
    /\ Matches(image, rules[2])
    /\ \E k \in 1..Len(image[rules[1].roi]) :
          image[rules[1].roi][k] # Trimmed(image[rules[1].roi][k])

\* C19: a call that walks has asked pull_foreground before its first hop, so
\* every edge action it fires comes after a focus request of the same call.
FocusBeforeAction ==
    (pc = "walk" \/ fired # <<>>) => io.focus >= 1

FocusBeforeActionWitness ==
    /\ pc = "idle"
    /\ result = "True"
    /\ Len(fired) = 2
    /\ io.focus = 1

\* the call sites with a call in flight
CallsInFlight ==
    {j \in Jobs : \E site \in DOMAIN JobCalls : job[j] = site \o "*"}
    \cup {site \in DOMAIN MainCalls : main = site \o "*"}

\* C20: in the orchestration of hand.py at most one detect_and_transition
\* call is in flight at any time: a call is entered only when every call
\* entered before it has ended.
CallsSerialized ==
    /\ in_flight \in {0, 1}
    /\ in_flight = Cardinality(CallsInFlight)

CallsSerializedWitness ==
    /\ in_flight = 1
    /\ job["keep_player_alive"] = "L144*"
    /\ main = "run"

\* C21: when the detection after a hop's action reports a screen other than
\* the call's target, or none, the belief becomes the hop's intended screen,
\* not the detected one; with hops left the walk goes on, the edge of the next
\* hop is found from the intended screen, and the next pass fires its action.
InconclusiveContinues ==
    [][pc = "walk" =>
         /\ current_state = path[hop]
         /\ Len(fired') = Len(fired) + 1
         /\ fired'[Len(fired')][1] = path[hop]
         /\ (result' \notin {"True", "ActionError"} /\ ~PerceptionRaised') =>
               /\ detected' # target
               /\ current_state' = path[hop + 1]
               /\ hop + 1 < Len(path) =>
                     /\ pc' = "walk"
                     /\ hop' = hop + 1
                     /\ EdgeTo(states[current_state'], path[hop' + 1]) # 0]_vars

InconclusiveContinuesWitness ==
    /\ pc = "walk"
    /\ hop = 3
    /\ Len(fired) = 2
    /\ detected \notin {NoState, path[3]}
    /\ current_state = path[3]

\* C22 as claimed: a call that returned True has left the belief at its
\* target.
SuccessAtTarget ==
    (pc = "idle" /\ target # NoState /\ result = "True") =>
        current_state = target

\* C23: on every graph, with cycles, self-loops and mutually linked screens
\* or without, the search of _find_path comes to its return, and what it
\* returns is None or a path that ends at the target.
PlannerTerminates ==
    <>(pc = "bfs_done" /\ (found = NoPath \/ found[Len(found)] = target))

PlannerTerminatesWitness ==
    /\ pc = "bfs_done"
    /\ found = NoPath
    /\ queue = <<>>
    /\ current_state \in Successors(states, current_state)
    /\ \E n \in DOMAIN states \ {current_state} :
          /\ n \in Successors(states, current_state)
          /\ current_state \in Successors(states, n)

\* C24 as claimed: within one search no screen is dequeued and expanded
\* twice: a pass of the while loop that goes on to enumerate the transitions
\* of the screen it dequeued finds that screen not yet visited.
VisitedAtMostOnce ==
    [][(pc = "bfs" /\ queue # <<>> /\ pc' = "bfs") =>
          Head(queue).state \notin visited]_vars

\* the shortest path from `s` to a reachable `t` that, at every screen, takes
\* the earliest-inserted transition that still lies on a shortest path
RECURSIVE FirstShortest(_, _, _)
FirstShortest(sts, s, t) ==
    IF s = t THEN <<s>>
    ELSE LET d == Distance(sts, s, t)
             onway == {i \in 1..Len(sts[s]) :
                         /\ Reachable(sts, sts[s][i].target, t)
                         /\ Distance(sts, sts[s][i].target, t) = d - 1}
             first == CHOOSE i \in onway : \A j \in onway : i <= j
         IN <<s>> \o FirstShortest(sts, sts[s][first].target, t)

\* C25: the path _find_path returns is a function of the graph, the belief
\* and the target alone, and among the shortest paths it is the first in the
\* enumeration order of the transitions: where another shortest path leaves
\* it, the returned path takes the earlier-inserted transition.
PlannerTieBreak ==
    (pc = "bfs_done" /\ Reachable(states, current_state, target)) =>
        /\ found = FirstShortest(states, current_state, target)
        /\ found = find_path(states, current_state, target)
        /\ \A i \in 1..(Len(found) - 1) :
              \A n \in Successors(states, found[i]) \ {found[i + 1]} :
                 (/\ Reachable(states, n, target)
                  /\ Distance(states, n, target) = Len(found) - i - 1) =>
                    EdgeTo(states[found[i]], found[i + 1])
                       < EdgeTo(states[found[i]], n)

PlannerTieBreakWitness ==
    /\ pc = "bfs_done"
    /\ Len(found) = 3
    /\ \E n \in Successors(states, found[1]) \ {found[2]} :
          /\ found[3] \in Successors(states, n)
          /\ EdgeTo(states[found[1]], found[2]) < EdgeTo(states[found[1]], n)

\* C26: a walk fires one action per hop it makes, in the order of the path,
\* and the action of hop i is that of the first transition, in insertion
\* order, of the path's i-th screen whose target is the path's next screen;
\* a later transition to the same screen is not fired for that hop.
EdgePerHop ==
    path # NoPath =>
        /\ Len(fired) <= Len(path) - 1
        /\ pc = "walk" => Len(fired) = hop - 1
        /\ pc = "idle" => Len(fired) = hop
        /\ \A i \in 1..Len(fired) :
              /\ fired[i][1] = path[i]
              /\ \E j \in 1..Len(states[path[i]]) :
                    /\ states[path[i]][j].input = fired[i][2]
                    /\ states[path[i]][j].target = path[i + 1]
                    /\ \A k \in 1..(j - 1) :
                          states[path[i]][k].target # path[i + 1]

EdgePerHopWitness ==
    /\ pc = "idle"
    /\ Len(fired) = 2
    /\ \E j, k \in 1..Len(states[path[1]]) :
          /\ j < k
          /\ states[path[1]][j].input = fired[1][2]
          /\ states[path[1]][k].target = path[2]

\* C27: in a walk along the path the planner returned in the same call, the
\* edge lookup of every pass finds a transition: the pass fires an action, and
\* the call never ends with the False of the for-else branch (lines 197-199);
\* a call that returns False has planned no path and fired nothing.
NoBrokenPath ==
    [][/\ pc = "walk" =>
             /\ EdgeTo(states[current_state], path[hop + 1]) # 0
             /\ Len(fired') = Len(fired) + 1
             /\ result' # "False"
       /\ result' = "False" => (path' = NoPath /\ fired' = <<>>)]_vars

NoBrokenPathWitness ==
    /\ pc = "idle"
    /\ result = "True"
    /\ Len(path) = 4
    /\ Len(fired) = 3
    /\ \A i \in 1..3 : EdgeTo(states[path[i]], path[i + 1]) # 0

\* C28: when the detection of a call matches no known screen, the belief is
\* left as it was and the planner runs from it: the call walks the planner's
\* path from the stale belief, or returns False when there is none.
StaleBeliefKept ==
    [][(/\ pc = "idle"
        /\ current_state \notin {NoState, target'}
        /\ io'.detections = 1
        /\ detected' = NoState
        /\ ~Raised') =>
          /\ current_state' = current_state
          /\ path' = find_path(states, current_state, target')
          /\ path' # NoPath =>
                (pc' = "walk" /\ path'[1] = current_state /\ io'.focus = 1)
          /\ path' = NoPath => (pc' = "idle" /\ result' = "False")]_vars

StaleBeliefKeptWitness ==
    /\ pc = "walk"
    /\ hop = 1
    /\ fired = <<>>
    /\ io.detections = 1
    /\ io.frames = 1
    /\ detected = NoState
    /\ ~adopted
    /\ path[1] = current_state

\* the call planned a path and has ended, and none of its providers or
\* actions raised
WalkEnded ==
    /\ pc = "idle"
    /\ path # NoPath
    /\ result # "ActionError"
    /\ ~PerceptionRaised

\* C29 as claimed: a call that planned a path and whose providers and actions
\* all returned has fired at most len(path) - 1 actions, has made one
\* detection before planning and one after each action fired, and has
\* returned a value.
BoundedWalkReturns ==
    /\ path # NoPath =>
          /\ Len(fired) <= Len(path) - 1
          /\ io.detections <= 1 + Len(fired)
    /\ WalkEnded =>
          /\ io.detections = 1 + Len(fired)
          /\ result \in {"True", "False"}

\* C30 as claimed: for every max_retries from 0 on, a construction that
\* completes has a screen of the catalog as its belief, never None.
ConstructionKnowsScreen ==
    (pc = "idle" /\ result = "constructed") => current_state \in DOMAIN states

\* the targets hand.py asks the controller for
Requested ==
    {JobCalls[site].target : site \in DOMAIN JobCalls}
    \cup {MainCalls[site].target : site \in DOMAIN MainCalls}

\* C31: in the shipped graph Scoreboard and In Game are reachable from each
\* of the 11 screens of the catalog, the planner finds a path to them from
\* whatever screen the controller believes, and no call of the orchestration
\* returns False for want of a path.
ShippedTargetsReachable ==
    /\ Requested = {"Scoreboard", "In Game"}
    /\ Cardinality(DOMAIN states) = 11
    /\ pc = "init" =>
          \A s \in DOMAIN states : \A t \in Requested : Reachable(states, s, t)
    /\ current_state # NoState =>
          \A t \in Requested :
             /\ Reachable(states, current_state, t)
             /\ find_path(states, current_state, t) # NoPath
    /\ result # "False"

ShippedTargetsReachableWitness ==
    /\ pc = "walk"
    /\ in_flight = 1
    /\ target = "Scoreboard"
    /\ path = <<"Round Starting", "Deploy", "In Game", "Menu", "Scoreboard">>

\* the screens of a path
OnPath(p) == {p[i] : i \in 1..Len(p)}

\* C32: with two calls interleaved on one controller, a pass of the for loop
\* can find the belief away from the place its own path has reached; that
\* happens only with a call of the other thread having written the belief
\* (its detection, or its own hops), and the pass then looks its edge up from
\* that screen: it fires that screen's transition to its next screen, an
\* action off its path, or finds none and returns False from the for-else
\* branch without firing.
InterleavingCorrupts ==
    [][(pc = "walk" /\ other' = other /\ current_state # path[hop]) =>
          /\ other.target # NoState
          /\ current_state \in {other.detected} \cup OnPath(other.path)
          /\ \/ /\ path[hop + 1] \notin Successors(states, current_state)
                /\ pc' = "idle"
                /\ result' = "False"
                /\ fired' = fired
             \/ /\ Len(fired') = Len(fired) + 1
                /\ fired'[Len(fired')][1] = current_state
                /\ get_transition(states[current_state],
                                  fired'[Len(fired')][2]) = path[hop + 1]]_vars

InterleavingCorruptsWitness ==
    /\ path # NoPath
    /\ other.path # NoPath
    /\ \E i \in 1..Len(fired) :
          /\ fired[i][1] \notin OnPath(path)
          /\ fired[i][1] \in OnPath(other.path)

\* the rules with each region written in four fractions
Denoted(rls) ==
    [i \in 1..Len(rls) |-> [rls[i] EXCEPT !.roi = obtain_roi(@)]]

\* C33 as claimed: over rules with regions in four fractions or in the
\* directional shorthand, find_text_in_rois returns what it returns for the
\* same rules with every region written in four fractions: the first rule
\* whose text is read in the region its roi denotes, None when there is none.
ShorthandDetects ==
    pc = "ocr_done" =>
        LET m == FirstMatch(image, Denoted(rules))
        IN returned = IF m = 0 THEN NoState ELSE rules[m].name

\* the calls, in order, that registered `label`
CallsFor(label) ==
    {k \in 1..Len(transition_table) : transition_table[k][2] = label}

\* C34: after any sequence of add_transition calls a State holds at most one
\* transition per trigger label; get_transition of a label gives the target
\* and action of the latest call that registered it, whatever was registered
\* under other labels before or after, and None for a label never registered.
LastWriteWins ==
    pc = "state" =>
        LET tr == states["Menu"]
        IN /\ \A i, j \in 1..Len(tr) : tr[i].input = tr[j].input => i = j
           /\ \A label \in Labels :
                 IF CallsFor(label) = {}
                 THEN /\ KeyIndex(tr, label) = 0
                      /\ get_transition(tr, label) = NoState
                 ELSE LET last == CHOOSE k \in CallsFor(label) :
                                     \A j \in CallsFor(label) : j <= k
                      IN /\ KeyIndex(tr, label) # 0
                         /\ get_transition(tr, label) = transition_table[last][3]

LastWriteWinsWitness ==
    /\ pc = "state"
    /\ Len(transition_table) = 3
    /\ transition_table[1][2] = transition_table[3][2]
    /\ transition_table[2][2] # transition_table[1][2]
    /\ transition_table[1][3][1] # transition_table[3][3][1]
    /\ transition_table[1][3][2] # transition_table[3][3][2]
    /\ Len(states["Menu"]) = 2
    /\ get_transition(states["Menu"], transition_table[1][2])
          = transition_table[3][3]
    /\ get_transition(states["Menu"], transition_table[2][2])
          = transition_table[2][3]

=============================================================================
